---- MODULE Spec2Model ----
(***************************************************************************)
(* Model of apo_docopt.py, the Apollo API command-line client.             *)
(*                                                                         *)
(* One run of the script is one behaviour: the credential file and the CSV *)
(* file on disk and the command line are fixed by Init; the remote service *)
(* answers each request with a nondeterministically chosen outcome.        *)
(***************************************************************************)
EXTENDS Integers, Sequences, FiniteSets, TLC

VARIABLES
    credExists,   \* os.path.exists('api_key.key')
    credContent,  \* the characters of api_key.key
    csv,          \* the data rows of rows.csv, the one CSV file on disk
    argv,         \* the command line
    pc,           \* position of the script
    api_key,      \* module global api_key (line 110)
    arguments,    \* module global arguments (line 122)
    data,         \* local data of upload_data (line 49)
    url,          \* local url of upload_data (lines 53, 55)
    row,          \* number of rows the loop of upload_data has consumed
    requests,     \* every requests.post call made, in order
    responses,    \* what each call came back with, in order
    console,      \* every line printed, in order
    log,          \* every logger.error entry, in order
    handlers,     \* the branches of the dispatch that were entered, in order
    exitCode      \* -1 while running, else the exit code of the process

vars == <<credExists, credContent, csv, argv, pc, api_key, arguments, data, url,
          row, requests, responses, console, log, handlers, exitCode>>

----------------------------------------------------------------------------
(* Bounds of the model *)

MaxKeyLen == 3
MaxRows == 3
MaxDomains == 2
MaxItems == 2

----------------------------------------------------------------------------
(* Values *)

Chars == {"A", " ", "\n"}
Whitespace == {" ", "\n"}

SeqsUpTo(S, n) == UNION {[1..k -> S] : k \in 0..n}

NoKey == <<"<unset>">>

BASE_URL == "https://api.apollo.io/v1"
ENRICH_URL == <<"https://api.apollo.io/api/v1/organizations/bulk_enrich">>
NoUrl == <<>>

\* the dict docopt returns: one flag per subcommand, and the operands
NoArguments == [company |-> FALSE, create |-> FALSE, upload |-> FALSE, enrich |-> FALSE,
                args |-> [cmd |-> "none"]]

\* data rows of a CSV file with n rows; row i becomes the dict {"id": i}
RowsOf(n) == [i \in 1..n |-> [id |-> i]]

CsvPath == "rows.csv"
Paths == {CsvPath, "missing.csv"}
Types == {"contact", "company", "invoice"}
Domains == {"example.com", "other.org"}

Commands == {"company", "create", "upload", "enrich"}

\* command lines: the four subcommands, help, version, and a usage error
Argvs ==
    {[cmd |-> "company", query |-> "acme"]}
    \cup {[cmd |-> "create", name |-> "Ann", email |-> "ann@acme.io", company |-> "acme"]}
    \cup {[cmd |-> "upload", type |-> t, file |-> f] : t \in Types, f \in Paths}
    \cup {[cmd |-> "enrich", domains |-> d] : d \in SeqsUpTo(Domains, MaxDomains) \ {<<>>}}
    \cup {[cmd |-> c] : c \in {"help", "version", "invalid"}}

\* response bodies, as token sequences
Items == {"a"}
Texts ==
    {<<"{", i, "}">> : i \in Items}
    \cup {<<"[">> \o s \o <<"]">> : s \in SeqsUpTo(Items, MaxItems)}
    \cup {<<"7">>, <<"<html>">>, <<>>}

Statuses == {200, 201, 204, 404}

\* outcome of one requests.post call
Outcomes ==
    {[kind |-> "transport"]}
    \cup {[kind |-> "response", status |-> s, text |-> t] : s \in Statuses, t \in Texts}

----------------------------------------------------------------------------
(* Pure helpers *)

RECURSIVE lstrip(_)
lstrip(s) ==
    IF s # <<>> /\ Head(s) \in Whitespace THEN lstrip(Tail(s)) ELSE s

RECURSIVE rstrip(_)
rstrip(s) ==
    IF s # <<>> /\ s[Len(s)] \in Whitespace THEN rstrip(SubSeq(s, 1, Len(s) - 1)) ELSE s

\* str.rstrip() where the code calls str.strip()
strip_trailing_only(s) == rstrip(s)

\* str.strip()
strip(s) == rstrip(lstrip(s))

\* os.path.exists for the paths an upload can name
exists(path) == path = CsvPath

\* read_api_key without its existence test
credential_missing_ignored == FALSE

\* the test of read_api_key (line 36)
credential_missing == ~credExists

\* one console or log line: its fixed prefix, the error it reports ("" when it
\* reports none), a number (status or item index) and its remaining text
Msg(kind, err, n, text) == [kind |-> kind, err |-> err, n |-> n, text |-> text]

\* what a piece of code writes, lines for the console and entries for the log,
\* and whether an exception leaves it
Output(out, errs) == [console |-> out, log |-> errs, raised |-> FALSE]

\* an exception nothing catches: the interpreter prints the traceback
Uncaught == [console |-> <<Msg("Traceback", "", 0, <<>>)>>, log |-> <<>>, raised |-> TRUE]

\* exit code of the script after its last statement ran or an exception escaped
exit_code(out) == IF out.raised THEN 1 ELSE 0

\* an exception caught by a handler that prints and logs it under one prefix
Reported(prefix, err, n) ==
    Output(<<Msg(prefix, err, n, <<>>)>>, <<Msg(prefix, err, n, <<>>)>>)

\* Response.raise_for_status(): HTTPError for 4xx and 5xx
raise_for_status(o) == o.status >= 400 /\ o.status < 600

\* Response.json(): the parsed body; shape "error" stands for JSONDecodeError
json(text) ==
    IF Len(text) = 3 /\ text[1] = "{" /\ text[3] = "}"
    THEN [shape |-> "dict", val |-> <<text[2]>>]
    ELSE IF Len(text) >= 2 /\ text[1] = "[" /\ text[Len(text)] = "]"
    THEN [shape |-> "list", val |-> SubSeq(text, 2, Len(text) - 1)]
    ELSE IF text = <<"7">>
    THEN [shape |-> "number", val |-> text]
    ELSE [shape |-> "error", val |-> <<>>]

\* json.dumps(value) / str(value): the value written out again
dumps(v) ==
    IF v.shape = "dict" THEN <<"{">> \o v.val \o <<"}">>
    ELSE IF v.shape = "list" THEN <<"[">> \o v.val \o <<"]">>
    ELSE v.val

\* the loop of pretty_print_json (lines 84-87): "Item idx:" then the item
RECURSIVE print_items(_, _)
print_items(items, idx) ==
    IF items = <<>> THEN <<>>
    ELSE <<Msg("Item", "", idx, <<>>), Msg("", "", idx, dumps(Head(items)))>>
         \o print_items(Tail(items), idx + 1)

\* pretty_print_json(data) (lines 74-87)
pretty_print_json(v) ==
    IF v.shape = "dict"
    THEN Output(print_items(<<v>>, 1), <<>>)
    ELSE IF v.shape = "list"
    THEN Output(print_items([i \in 1..Len(v.val) |-> [shape |-> "string", val |-> <<v.val[i]>>]], 1),
                <<>>)
    ELSE Output(<<Msg("Unexpected data format.", "unexpected response shape", 0, <<>>)>>,
                <<Msg("Unexpected data format. Expected a list or dict.",
                      "unexpected response shape", 0, <<>>)>>)

\* the headers dict (lines 116-120)
headers == [CacheControl |-> "no-cache", ContentType |-> "application/json",
            XApiKey |-> api_key]

\* one requests.post(url, headers=headers, json=body) call
Post(u, body) == [method |-> "POST", url |-> u, headers |-> headers, json |-> body]

\* what the run keeps of a call's outcome
Received(o) == o

----------------------------------------------------------------------------
\* the process starts: the disk and the command line are given, nothing has
\* run; the content of rows.csv matters to upload alone and is left empty for
\* the other command lines
Init ==
    /\ credExists \in BOOLEAN
    /\ credContent \in SeqsUpTo(Chars, MaxKeyLen)
    /\ (~credExists => credContent = <<>>)
    /\ csv \in {RowsOf(n) : n \in 0..MaxRows}
    /\ argv \in Argvs
    /\ (argv.cmd # "upload" => csv = RowsOf(0))
    /\ pc = "start"
    /\ api_key = NoKey
    /\ arguments = NoArguments
    /\ data = <<>>
    /\ url = NoUrl
    /\ row = 0
    /\ requests = <<>>
    /\ responses = <<>>
    /\ console = <<>>
    /\ log = <<>>
    /\ handlers = <<>>
    /\ exitCode = -1

\* read_api_key() and the try/except around it (lines 35-40, 109-114)
ReadApiKey ==
    /\ pc = "start"
    /\ IF credential_missing
       THEN /\ log' = log \o <<Msg("API key file 'api_key.key' not found.", "missing credential", 0, <<>>),
                               Msg("Exiting due to missing API key file.", "missing credential", 0, <<>>)>>
            /\ console' = Append(console, Msg("Error:", "missing credential", 0, <<>>))
            /\ exitCode' = 1
            /\ pc' = "done"
            /\ UNCHANGED api_key
       ELSE /\ api_key' = strip(credContent)
            /\ pc' = "parse"
            /\ UNCHANGED <<log, console, exitCode>>
    /\ UNCHANGED <<credExists, credContent, csv, argv, arguments, data, url, row,
                   requests, responses, handlers>>

\* docopt(__doc__, version=...) (line 122): help and version print and exit 0,
\* a command line outside the grammar prints the usage and exits 1
ParseArgs ==
    /\ pc = "parse"
    /\ IF argv.cmd \in {"help", "version"}
       THEN /\ console' = Append(console, Msg(argv.cmd, "", 0, <<>>))
            /\ exitCode' = 0
            /\ pc' = "done"
            /\ UNCHANGED arguments
       ELSE IF argv.cmd = "invalid"
       THEN /\ console' = Append(console, Msg("Usage:", "", 0, <<>>))
            /\ exitCode' = 1
            /\ pc' = "done"
            /\ UNCHANGED arguments
       ELSE /\ arguments' = [company |-> argv.cmd = "company", create |-> argv.cmd = "create",
                             upload |-> argv.cmd = "upload", enrich |-> argv.cmd = "enrich",
                             args |-> argv]
            /\ pc' = "dispatch"
            /\ UNCHANGED <<console, exitCode>>
    /\ UNCHANGED <<credExists, credContent, csv, argv, api_key, data, url, row,
                   requests, responses, log, handlers>>

\* the try/except of the company branch (lines 128-138)
company_output(o) ==
    IF o.kind = "transport" THEN Reported("An error occurred:", "transport error", 0)
    ELSE IF raise_for_status(o) THEN Reported("HTTP error occurred:", "HTTP error status", o.status)
    ELSE IF json(o.text).shape = "error"
    THEN Reported("An error occurred:", "unparsable response body", 0)
    ELSE pretty_print_json(json(o.text))

\* the company branch calling again when the transport fails
Company_retry(o) ==
    /\ pc = "dispatch"
    /\ arguments.company
    /\ handlers' = IF requests = <<>> THEN Append(handlers, "company") ELSE handlers
    /\ requests' = Append(requests, Post(<<BASE_URL, "/accounts">>, [name |-> arguments.args.query]))
    /\ responses' = Append(responses, Received(o))
    /\ console' = console \o company_output(o).console
    /\ log' = log \o company_output(o).log
    /\ IF o.kind = "transport" /\ requests = <<>>
       THEN UNCHANGED <<exitCode, pc>>
       ELSE exitCode' = exit_code(company_output(o)) /\ pc' = "done"
    /\ UNCHANGED <<credExists, credContent, csv, argv, api_key, arguments, data, url, row>>

\* the company branch (lines 124-138)
Company(o) ==
    /\ pc = "dispatch"
    /\ arguments.company
    /\ handlers' = Append(handlers, "company")
    /\ requests' = Append(requests, Post(<<BASE_URL, "/accounts">>, [name |-> arguments.args.query]))
    /\ responses' = Append(responses, Received(o))
    /\ console' = console \o company_output(o).console
    /\ log' = log \o company_output(o).log
    /\ exitCode' = exit_code(company_output(o))
    /\ pc' = "done"
    /\ UNCHANGED <<credExists, credContent, csv, argv, api_key, arguments, data, url, row>>

\* the create branch with the messages of 200 and 201 exchanged
create_output_swapped(o) ==
    IF o.kind = "transport" THEN Reported("An error occurred:", "transport error", 0)
    ELSE IF raise_for_status(o) THEN Reported("HTTP error occurred:", "HTTP error status", o.status)
    ELSE IF o.status = 200
    THEN IF json(o.text).shape = "error"
         THEN Reported("An error occurred:", "unparsable response body", 0)
         ELSE Output(<<Msg("Contact created:", "", 0, dumps(json(o.text)))>>, <<>>)
    ELSE IF o.status = 201
    THEN Output(<<Msg("Solicitud aceptada:", "", 0, o.text)>>, <<>>)
    ELSE Output(<<>>, <<>>)

\* the try/except of the create branch (lines 150-162)
create_output(o) ==
    IF o.kind = "transport" THEN Reported("An error occurred:", "transport error", 0)
    ELSE IF raise_for_status(o) THEN Reported("HTTP error occurred:", "HTTP error status", o.status)
    ELSE IF o.status = 201
    THEN IF json(o.text).shape = "error"
         THEN Reported("An error occurred:", "unparsable response body", 0)
         ELSE Output(<<Msg("Contact created:", "", 0, dumps(json(o.text)))>>, <<>>)
    ELSE IF o.status = 200
    THEN Output(<<Msg("Solicitud aceptada:", "", 0, o.text)>>, <<>>)
    ELSE Output(<<>>, <<>>)

\* the create branch (lines 140-162)
Create(o) ==
    /\ pc = "dispatch"
    /\ ~arguments.company
    /\ arguments.create
    /\ handlers' = Append(handlers, "create")
    /\ requests' = Append(requests,
                          Post(<<BASE_URL, "/contacts">>,
                               [first_name |-> arguments.args.name,
                                email |-> arguments.args.email,
                                company |-> arguments.args.company]))
    /\ responses' = Append(responses, Received(o))
    /\ console' = console \o create_output(o).console
    /\ log' = log \o create_output(o).log
    /\ exitCode' = exit_code(create_output(o))
    /\ pc' = "done"
    /\ UNCHANGED <<credExists, credContent, csv, argv, api_key, arguments, data, url, row>>

\* the enrich branch without its try/except
enrich_output_uncaught(o) ==
    IF o.kind = "transport" THEN Uncaught
    ELSE IF o.status = 200
    THEN IF json(o.text).shape = "error" THEN Uncaught ELSE pretty_print_json(json(o.text))
    ELSE Output(<<Msg("Error:", "HTTP error status", o.status, <<>>),
                  Msg("", "", 0, o.text)>>, <<>>)

\* enrich_domains taking every status below 300 for success
enrich_output_any_2xx(o) ==
    IF o.kind = "transport" THEN Reported("Error:", "transport error", 0)
    ELSE IF o.status < 300
    THEN IF json(o.text).shape = "error"
         THEN Reported("Error:", "unparsable response body", 0)
         ELSE pretty_print_json(json(o.text))
    ELSE Output(<<Msg("Error:", "HTTP error status", o.status, <<>>),
                  Msg("", "", 0, o.text)>>, <<>>)

\* enrich_domains (lines 90-101) inside the try/except of the enrich branch
\* (lines 175-179)
enrich_output(o) ==
    IF o.kind = "transport" THEN Reported("Error:", "transport error", 0)
    ELSE IF o.status = 200
    THEN IF json(o.text).shape = "error"
         THEN Reported("Error:", "unparsable response body", 0)
         ELSE pretty_print_json(json(o.text))
    ELSE Output(<<Msg("Error:", "HTTP error status", o.status, <<>>),
                  Msg("", "", 0, o.text)>>, <<>>)

\* the body enrich_domains sends (lines 92-94)
enrich_body(domains) == [domains |-> domains]

\* the enrich branch (lines 173-179)
Enrich(o) ==
    /\ pc = "dispatch"
    /\ ~arguments.company
    /\ ~arguments.create
    /\ ~arguments.upload
    /\ arguments.enrich
    /\ handlers' = Append(handlers, "enrich")
    /\ requests' = Append(requests, Post(ENRICH_URL, enrich_body(arguments.args.domains)))
    /\ responses' = Append(responses, Received(o))
    /\ console' = console \o enrich_output(o).console
    /\ log' = log \o enrich_output(o).log
    /\ exitCode' = exit_code(enrich_output(o))
    /\ pc' = "done"
    /\ UNCHANGED <<credExists, credContent, csv, argv, api_key, arguments, data, url, row>>

\* upload_data without the else branch that rejects the type
upload_check_any_type(file_path, data_type) ==
    IF ~exists(file_path) THEN "missing upload file" ELSE ""

\* upload_data checking the type before the file
upload_check_type_first(file_path, data_type) ==
    IF data_type \notin {"contact", "company"} THEN "unsupported upload type"
    ELSE IF ~exists(file_path) THEN "missing upload file"
    ELSE ""

\* the validation of upload_data (lines 44-58) as the upload branch sees it
\* (lines 167-171): which exception leaves upload_data, "" when none does
upload_check(file_path, data_type) ==
    IF ~exists(file_path) THEN "missing upload file"
    ELSE IF data_type = "contact" THEN ""
    ELSE IF data_type = "company" THEN ""
    ELSE "unsupported upload type"

\* the endpoint upload_data chooses (lines 52-55)
upload_url(data_type) ==
    IF data_type = "contact" THEN <<BASE_URL, "/contacts">>
    ELSE IF data_type = "company" THEN <<BASE_URL, "/accounts">>
    ELSE NoUrl

\* what upload_data logs before it raises (lines 45, 57) and what the upload
\* branch prints and logs on catching it (lines 170-171)
upload_error_output(err) ==
    Output(<<Msg("Error:", err, 0, <<>>)>>,
           <<Msg(IF err = "missing upload file" THEN "CSV file not found."
                 ELSE "Unsupported data type:", err, 0, <<>>),
             Msg("Error:", err, 0, <<>>)>>)

\* the upload branch up to the loop of upload_data (lines 164-171, 43-58)
UploadStart ==
    /\ pc = "dispatch"
    /\ ~arguments.company
    /\ ~arguments.create
    /\ arguments.upload
    /\ handlers' = Append(handlers, "upload")
    /\ LET err == upload_check(arguments.args.file, arguments.args.type) IN
       /\ data' = IF exists(arguments.args.file) THEN csv ELSE data
       /\ url' = IF exists(arguments.args.file) THEN upload_url(arguments.args.type) ELSE url
       /\ IF err # ""
          THEN /\ console' = console \o upload_error_output(err).console
               /\ log' = log \o upload_error_output(err).log
               /\ exitCode' = 0
               /\ pc' = "done"
          ELSE /\ pc' = "upload_rows"
               /\ UNCHANGED <<console, log, exitCode>>
    /\ row' = 0
    /\ UNCHANGED <<credExists, credContent, csv, argv, api_key, arguments,
                   requests, responses>>

\* the try/except of the loop body of upload_data (lines 62-71)
upload_row_output(o, r) ==
    IF o.kind = "transport" THEN Reported("An error occurred:", "transport error", 0)
    ELSE IF raise_for_status(o) THEN Reported("HTTP error occurred:", "HTTP error status", o.status)
    ELSE Output(<<Msg("Successfully uploaded:", "", r.id, <<>>)>>, <<>>)

\* upload_data never reads the body of a response: the run keeps its status
Seen(o) == IF o.kind = "transport" THEN o ELSE [o EXCEPT !.text = <<>>]

\* the row the loop of upload_data takes next (line 61)
next_row == row + 1

\* a loop that stops at the first row that fails
rows_left_until_failure ==
    /\ row < Len(data)
    /\ IF row = 0 THEN TRUE
       ELSE IF responses[row].kind = "transport" THEN FALSE
       ELSE ~raise_for_status(responses[row])

\* whether the loop of upload_data has a row left to take (line 61)
rows_left == row < Len(data)

\* one iteration of the loop of upload_data (lines 61-71)
UploadRow(o) ==
    /\ pc = "upload_rows"
    /\ rows_left
    /\ requests' = Append(requests, Post(url, data[next_row]))
    /\ responses' = Append(responses, Seen(o))
    /\ console' = console \o upload_row_output(o, data[next_row]).console
    /\ log' = log \o upload_row_output(o, data[next_row]).log
    /\ row' = next_row
    /\ UNCHANGED <<credExists, credContent, csv, argv, pc, api_key, arguments, data, url,
                   handlers, exitCode>>

\* the loop of upload_data is exhausted and the script ends (line 61)
UploadEnd ==
    /\ pc = "upload_rows"
    /\ ~rows_left
    /\ exitCode' = 0
    /\ pc' = "done"
    /\ UNCHANGED <<credExists, credContent, csv, argv, api_key, arguments, data, url, row,
                   requests, responses, console, log, handlers>>

Next ==
    \/ ReadApiKey
    \/ ParseArgs
    \/ \E o \in Outcomes : Company(o)
    \/ \E o \in Outcomes : Create(o)
    \/ UploadStart
    \/ \E o \in Outcomes : UploadRow(o)
    \/ UploadEnd
    \/ \E o \in Outcomes : Enrich(o)

Spec == Init /\ [][Next]_vars

----------------------------------------------------------------------------
(* Vocabulary of the properties *)

\* the call's outcome is a failure of the remote call
Failed(r) == r.kind = "transport" \/ r.status >= 400

\* the kind of error a failed call is
FailureKind(r) == IF r.kind = "transport" THEN "transport error" ELSE "HTTP error status"

ErrorKinds == {"missing credential", "missing upload file", "unsupported upload type",
               "HTTP error status", "transport error", "unparsable response body",
               "unexpected response shape"}

OnConsole(e) == \E i \in 1..Len(console) : console[i].err = e
InLog(e) == \E i \in 1..Len(log) : log[i].err = e

\* the prefixes of the console lines, in order
Prefixes == [i \in 1..Len(console) |-> console[i].kind]

\* the run has the credential and one of the four subcommands
Runs(c) == credExists /\ argv.cmd = c

----------------------------------------------------------------------------
\* C1: without the credential file every command line ends in exit code 1 with
\* an error printed, straight from startup, and no HTTP request is ever issued.
C1_MissingCredentialFatal ==
    ~credExists =>
        /\ requests = <<>>
        /\ handlers = <<>>
        /\ pc \in {"start", "done"}
        /\ exitCode \in {-1, 1}
        /\ pc = "done" => /\ exitCode = 1
                          /\ Prefixes = <<"Error:">>
                          /\ console[1].err = "missing credential"

C1_Witness ==
    ~credExists /\ pc = "done" /\ argv.cmd = "upload" /\ Len(csv) > 0 /\ exitCode = 1

\* C2: an upload of type contact or company from an existing file sends one
\* POST per data row, in row order, whatever each row's outcome is: a failed
\* row is reported and the rows after it are still sent, each once.
C2_OneRequestPerRow ==
    (Runs("upload") /\ argv.type \in {"contact", "company"} /\ argv.file = CsvPath) =>
        /\ Len(requests) <= Len(csv)
        /\ Len(responses) = Len(requests)
        /\ Len(console) = Len(requests)
        /\ \A i \in 1..Len(requests) :
              /\ requests[i].method = "POST"
              /\ requests[i].json = csv[i]
              /\ requests[i].url = <<BASE_URL, IF argv.type = "contact" THEN "/contacts"
                                               ELSE "/accounts">>
              /\ Failed(responses[i]) => /\ console[i].err = FailureKind(responses[i])
                                         /\ InLog(FailureKind(responses[i]))
              /\ ~Failed(responses[i]) => console[i].kind = "Successfully uploaded:"
        /\ pc = "done" => Len(requests) = Len(csv)

C2_Witness ==
    /\ Runs("upload") /\ argv.type = "contact" /\ argv.file = CsvPath
    /\ pc = "done"
    /\ Len(csv) = 3 /\ Len(requests) = 3
    /\ ~Failed(responses[1]) /\ Failed(responses[2]) /\ ~Failed(responses[3])

\* C3: an upload of a type other than contact and company from an existing
\* file reports the unsupported type and sends no request, however many rows
\* the file has.
C3_UnsupportedTypeNoRequest ==
    (Runs("upload") /\ argv.type \notin {"contact", "company"} /\ argv.file = CsvPath) =>
        /\ requests = <<>>
        /\ pc # "upload_rows"
        /\ pc = "done" => /\ OnConsole("unsupported upload type")
                          /\ InLog("unsupported upload type")
                          /\ ~OnConsole("missing upload file")

C3_Witness ==
    /\ Runs("upload") /\ argv.type = "invoice" /\ argv.file = CsvPath
    /\ Len(csv) >= 2 /\ pc = "done" /\ OnConsole("unsupported upload type")

\* C4: with the credential present, each of the four subcommands ends with exit
\* code 0 whatever the remote calls come back with; a failed call is printed
\* and no exception escapes.
C4_RemoteFailureNeverFatal ==
    (credExists /\ argv.cmd \in Commands) =>
        /\ exitCode \in {-1, 0}
        /\ pc = "done" => exitCode = 0
        /\ \A i \in 1..Len(console) : console[i].kind # "Traceback"
        /\ \A i \in 1..Len(responses) :
              Failed(responses[i]) => OnConsole(FailureKind(responses[i]))

C4_Witness ==
    /\ Runs("enrich") /\ pc = "done" /\ exitCode = 0
    /\ responses[1].kind = "transport"

\* C5: every kind of error the run reports is on the console and in the log:
\* a console line for an error comes with a log entry for it, and conversely.
C5_EveryErrorLoggedAndPrinted ==
    \A e \in ErrorKinds : OnConsole(e) <=> InLog(e)

IsObjectOrList(text) ==
    \/ Len(text) = 3 /\ text[1] = "{" /\ text[3] = "}"
    \/ Len(text) >= 2 /\ text[1] = "[" /\ text[Len(text)] = "]"

ReturnedItems(text) ==
    IF text[1] = "{" THEN <<text>>
    ELSE [i \in 1..(Len(text) - 2) |-> <<text[i + 1]>>]

\* the console shows the items of the body, numbered from 1, and nothing else
JsonPrinted(text) ==
    /\ Len(console) = 2 * Len(ReturnedItems(text))
    /\ \A i \in 1..Len(ReturnedItems(text)) :
          /\ console[2 * i - 1].kind = "Item" /\ console[2 * i - 1].n = i
          /\ console[2 * i].text = ReturnedItems(text)[i]

\* the console shows the status code and then the raw text of the response
StatusAndTextPrinted(r) ==
    /\ Len(console) = 2
    /\ console[1].kind = "Error:" /\ console[1].n = r.status
    /\ console[2].text = r.text

\* the one request of enrich carries every domain of the command line, in order
EnrichRequestSent ==
    /\ Len(requests) = 1
    /\ requests[1].json = [domains |-> argv.domains]
    /\ requests[1].url = ENRICH_URL

\* the text is JSON: an object, a list or a number
IsJson(text) == IsObjectOrList(text) \/ text = <<"7">>

\* the console shows the JSON value of the body
JsonShown(text) ==
    IF IsObjectOrList(text) THEN JsonPrinted(text)
    ELSE \E i \in 1..Len(console) : console[i].text = text

\* C7 as stated: enrich sends one request with the full domain list; the
\* returned JSON is printed exactly when the status is 200, and otherwise the
\* raw status code and response text are printed.
C7_Original ==
    (Runs("enrich") /\ pc = "done" /\ responses[1].kind = "response") =>
        LET r == responses[1] IN
        /\ EnrichRequestSent
        /\ (r.status = 200 /\ IsJson(r.text)) => JsonShown(r.text)
        /\ (\E i \in 1..Len(console) : console[i].kind = "Item") => r.status = 200
        /\ r.status # 200 => StatusAndTextPrinted(r)

\* C7 amended: enrich sends one request with the full domain list; the
\* returned JSON is printed only if the status is 200, and is printed whenever
\* the status is 200 and the body is a JSON object or list; whenever a
\* response with another status arrives, its status code and raw text are
\* printed.
C7_EnrichOneRequest ==
    (Runs("enrich") /\ pc = "done") =>
        LET r == responses[1] IN
        /\ EnrichRequestSent
        /\ (\E i \in 1..Len(console) : console[i].kind = "Item")
              => (r.kind = "response" /\ r.status = 200)
        /\ (r.kind = "response" /\ r.status = 200 /\ IsObjectOrList(r.text))
              => JsonPrinted(r.text)
        /\ (r.kind = "response" /\ r.status # 200) => StatusAndTextPrinted(r)

C7_Witness ==
    /\ Runs("enrich") /\ pc = "done"
    /\ argv.domains = <<"example.com", "other.org">>
    /\ responses[1].kind = "response" /\ responses[1].status = 200
    /\ responses[1].text = <<"[", "a", "a", "]">>
    /\ Len(console) = 4

\* s without the whitespace at its end
TrailingStripped(s) ==
    LET k == CHOOSE k \in 0..Len(s) :
                 /\ (k = 0 \/ s[k] \notin Whitespace)
                 /\ \A j \in (k + 1)..Len(s) : s[j] \in Whitespace
    IN SubSeq(s, 1, k)

\* k is s without the whitespace at its start and at its end
IsStripped(k, s) ==
    \E a, b \in 0..Len(s) :
        /\ a + b <= Len(s)
        /\ k = SubSeq(s, a + 1, Len(s) - b)
        /\ \A i \in 1..a : s[i] \in Whitespace
        /\ \A i \in (Len(s) - b + 1)..Len(s) : s[i] \in Whitespace
        /\ (k = <<>> \/ (k[1] \notin Whitespace /\ k[Len(k)] \notin Whitespace))

\* C8 as stated: the key every request carries is the content of the
\* credential file with its trailing whitespace stripped.
C8_Original ==
    (credExists /\ pc # "start") =>
        /\ api_key = TrailingStripped(credContent)
        /\ \A i \in 1..Len(requests) :
              requests[i].headers.XApiKey = TrailingStripped(credContent)

\* C8 amended: the key is read once at startup and every request of the run
\* carries the same API-key header, whose value is the content of the
\* credential file with its leading and trailing whitespace stripped.
C8_SameStrippedKey ==
    (credExists /\ pc # "start") =>
        /\ IsStripped(api_key, credContent)
        /\ \A i \in 1..Len(requests) : requests[i].headers.XApiKey = api_key

C8_Witness ==
    /\ credExists /\ credContent = <<" ", "A", "\n">>
    /\ Len(requests) >= 2
    /\ requests[2].headers.XApiKey = <<"A">>

\* C9: no request is retried and one handler runs: a run of company, create or
\* enrich issues one request in total, whether it succeeds, returns an HTTP
\* error status or fails in transport, and the dispatch enters the one branch
\* of the subcommand given.
C9_NoRetryOneHandler ==
    /\ Len(handlers) <= 1
    /\ (credExists /\ argv.cmd \in Commands /\ pc \in {"upload_rows", "done"})
          => handlers = <<argv.cmd>>
    /\ argv.cmd \in {"company", "create", "enrich"} =>
          /\ Len(requests) <= 1
          /\ (credExists /\ pc = "done") => Len(requests) = 1

C9_Witness ==
    /\ Runs("company") /\ pc = "done"
    /\ Len(requests) = 1 /\ responses[1].kind = "transport"
    /\ handlers = <<"company">>

\* C10: upload checks that the file exists before it loads it and checks the
\* type after: with the file missing the error is "file not found" also when
\* the type is unsupported, and nothing was loaded; with the file present and
\* the type unsupported the file was loaded first; no request is sent in
\* either case.
C10_UploadValidationOrder ==
    (Runs("upload") /\ pc = "done") =>
        /\ argv.file # CsvPath
              => /\ Prefixes = <<"Error:">>
                 /\ console[1].err = "missing upload file"
                 /\ log[1].kind = "CSV file not found."
                 /\ ~InLog("unsupported upload type")
                 /\ data = <<>>
                 /\ requests = <<>>
        /\ (argv.file = CsvPath /\ argv.type \notin {"contact", "company"})
              => /\ Prefixes = <<"Error:">>
                 /\ console[1].err = "unsupported upload type"
                 /\ log[1].kind = "Unsupported data type:"
                 /\ data = csv
                 /\ requests = <<>>

C10_Witness ==
    /\ Runs("upload") /\ pc = "done"
    /\ argv.file # CsvPath /\ argv.type = "invoice"
    /\ console[1].err = "missing upload file"
====
